---- MODULE Spec2Model ----
(***************************************************************************)
(* Model of scripts/audit-frontend-invokes.py: the frontend invoke()       *)
(* auditor.  main() globs the frontend sources, extracts every             *)
(* invoke("<name>") call site, reads src-tauri/src/lib.rs, builds the two  *)
(* registries, classifies every call site into one of four buckets,        *)
(* writes five report files under tmp/ and returns 1 iff a legacy command  *)
(* is still invoked.                                                       *)
(*                                                                         *)
(* Text is modelled by what the regular expressions see of it: a name is   *)
(* the sequence of its characters, a frontend line is the sequence of its  *)
(* invoke-shaped tokens, lib.rs is the sequence of its `qualifier::name`   *)
(* registrations, a qualifier being the sequence of its path segments.     *)
(***************************************************************************)
EXTENDS Naturals, Sequences, FiniteSets

\* ------------------------------------------------------------------ bounds
MaxLines   == 2   \* lines of one frontend file
MaxEntries == 2   \* registrations in lib.rs
MaxRuns    == 2   \* invocations of main() over the same checkout

\* ------------------------------------------------------------- small tools
Range(s) == {s[i] : i \in 1..Len(s)}

SeqsUpTo(S, n) == UNION {[1..k -> S] : k \in 0..n}

Count(x, s) == Cardinality({i \in 1..Len(s) : s[i] = x})

\* -------------------------------------------------------------- the inputs
\* Operation names, as character sequences.
N_v2_a      == <<"v", "2", "_", "a">>
N_runtime_b == <<"r", "u", "n", "t", "i", "m", "e", "_", "b">>
N_play      == <<"p", "l", "a", "y">>
N_v2        == <<"v", "2">>
Names       == {N_v2_a, N_runtime_b, N_play, N_v2}

\* A token of a frontend line: invoke("<name>") with a literal name, or an
\* invoke(<expression>) whose argument is not a quoted literal.
Lit(n)  == [lit |-> TRUE, name |-> n]
Dyn     == [lit |-> FALSE, name |-> <<>>]

\* The lines a frontend file is made of.
LinePool == { <<>>, <<Lit(N_play)>>, <<Lit(N_v2_a), Dyn, Lit(N_v2_a)>> }

\* A file of the checkout: not there, or there with a text.
Absent     == [exists |-> FALSE, text |-> <<>>]
File(text) == [exists |-> TRUE, text |-> text]

\* Frontend files of the checkout, with the root and suffix of each.
P_a == "src/lib/a.ts"
P_b == "src/lib/player/b.ts"
P_p == "src/routes/+page.svelte"
Paths == {P_a, P_b, P_p}
PathInfo ==
  [p \in Paths |->
     CASE p = P_a -> [root |-> "src/lib",    ext |-> "ts"]
       [] p = P_b -> [root |-> "src/lib",    ext |-> "ts"]
       [] p = P_p -> [root |-> "src/routes", ext |-> "svelte"]]
Roots == {"src/lib", "src/routes"}

\* Namespace qualifiers a registration in lib.rs can carry.
Qualifiers == { <<"commands_v2">>, <<"commands">>,
                <<"cast", "dlna", "commands">>, <<"updates">> }
Entries == [qual : Qualifiers, name : Names]

\* Frontend texts end in a line that has tokens: blank lines at the end of a
\* file add no call site and shift no line number.
FrontFiles ==
  {Absent} \cup {File(t) : t \in {s \in SeqsUpTo(LinePool, MaxLines) :
                                    s = <<>> \/ s[Len(s)] # <<>>}}
LibFiles   == {Absent} \cup {File(t) : t \in SeqsUpTo(Entries, MaxEntries)}

\* A lib.rs that registers one name of each generation.
SampleLib ==
  File(<< [qual |-> <<"commands_v2">>, name |-> N_v2_a],
          [qual |-> <<"library", "commands">>, name |-> N_play] >>)

\* One file that invokes every name once.
AllNamesTree ==
  [p \in Paths |->
     IF p = P_a
     THEN File(<< <<Lit(N_v2_a), Lit(N_runtime_b)>>,
                  <<Lit(N_play), Lit(N_v2)>> >>)
     ELSE Absent]

\* A directory that holds a file exists.
DirsOk(t, d) == \A p \in Paths : t[p].exists => PathInfo[p].root \in d

\* ------------------------------------------------------------------- state
VARIABLES
  tree,              \* the frontend files of the checkout
  dirs,              \* the frontend root directories that exist
  lib,               \* src-tauri/src/lib.rs
  reports,           \* the files under tmp/
  written,           \* the report files this invocation has written
  pc,                \* where main() is
  front_paths,       \* main's locals, under their names in the source
  fi,
  invokes,
  registered_v2,
  registered_legacy,
  ci,
  v2_ok,
  missing_v2,
  legacy_calls,
  unknown,
  summary,
  ti,
  exit_code,         \* the process status once pc is "returned" or "crashed"
  run,               \* which invocation of main() this is
  prev_invokes       \* the call sites the previous invocation extracted

env    == <<tree, dirs, lib>>
locals == <<front_paths, fi, invokes, registered_v2, registered_legacy, ci,
            v2_ok, missing_v2, legacy_calls, unknown, summary, ti>>
vars   == <<tree, dirs, lib, reports, written, pc, front_paths, fi, invokes,
            registered_v2, registered_legacy, ci, v2_ok, missing_v2,
            legacy_calls, unknown, summary, ti, exit_code, run, prev_invokes>>

Buckets ==
  [v2_ok |-> v2_ok, missing_v2 |-> missing_v2,
   legacy_calls |-> legacy_calls, unknown |-> unknown]

\* ------------------------------------------------- the program's functions
\* str.startswith
StartsWith(s, p) ==
  /\ Len(s) >= Len(p)
  /\ \A i \in 1..Len(p) : s[i] = p[i]

PrefV2      == <<"v", "2", "_">>
PrefRuntime == <<"r", "u", "n", "t", "i", "m", "e", "_">>

\* front_globs: root/**/*.ext
front_globs ==
  << [root |-> "src/lib",    ext |-> "ts"],
     [root |-> "src/lib",    ext |-> "svelte"],
     [root |-> "src/routes", ext |-> "ts"],
     [root |-> "src/routes", ext |-> "svelte"] >>

\* root.glob(g): the files under g's root with g's suffix; nothing when the
\* root directory does not exist.
GlobMatches(g, t, d) ==
  IF g.root \notin d THEN {}
  ELSE {p \in Paths : /\ t[p].exists
                      /\ PathInfo[p].root = g.root
                      /\ PathInfo[p].ext = g.ext}

\* The orders in which the filesystem can enumerate a set of files.
Enumerations(S) ==
  {s \in [1..Cardinality(S) -> S] : \A i, j \in 1..Cardinality(S) :
                                        s[i] = s[j] => i = j}

\* invoke_pat.finditer(line): the literal first arguments, left to right.
\* [^'"]+ needs at least one character between the quotes.
RECURSIVE InvokeMatches(_)
InvokeMatches(line) ==
  IF line = <<>> THEN <<>>
  ELSE IF Head(line).lit /\ Len(Head(line).name) >= 1
       THEN <<Head(line).name>> \o InvokeMatches(Tail(line))
       ELSE InvokeMatches(Tail(line))

\* One (name, "rel:idx") pair per match of line idx.
LineInvokes(rel, idx, line) ==
  LET ms == InvokeMatches(line)
  IN  [k \in 1..Len(ms) |-> <<ms[k], <<rel, idx>> >>]

\* The body of `for path in front_paths`: lines numbered from 1.
RECURSIVE FileInvokesFrom(_, _, _)
FileInvokesFrom(rel, text, idx) ==
  IF idx > Len(text) THEN <<>>
  ELSE LineInvokes(rel, idx, text[idx]) \o FileInvokesFrom(rel, text, idx + 1)

FileInvokes(rel, text) == FileInvokesFrom(rel, text, 1)

LoadFails_never(file) == FALSE

\* load_text raises on a file that is not there.
LoadFails(file) == ~file.exists

RegistrationMatches_anyName(e) ==
  /\ e.qual[Len(e.qual)] = "commands_v2"
  /\ Len(e.name) >= 1

\* registrations_pat: commands_v2::(v2_[A-Za-z0-9_]+|runtime_[A-Za-z0-9_]+)
RegistrationMatches(e) ==
  /\ e.qual[Len(e.qual)] = "commands_v2"
  /\ \/ StartsWith(e.name, PrefV2) /\ Len(e.name) > Len(PrefV2)
     \/ StartsWith(e.name, PrefRuntime) /\ Len(e.name) > Len(PrefRuntime)

RegisteredV2(text) ==
  {text[i].name : i \in {j \in 1..Len(text) : RegistrationMatches(text[j])}}

\* legacy_patterns: <qualifier>::([A-Za-z0-9_]+), searched anywhere in the
\* text, so a pattern matches every registration whose qualifier ends in it.
legacy_patterns ==
  << <<"commands">>,
     <<"library", "commands">>,
     <<"cast", "commands">>,
     <<"cast", "dlna", "commands">>,
     <<"offline_cache", "commands">>,
     <<"offline", "commands">>,
     <<"network", "commands">>,
     <<"lyrics", "commands">>,
     <<"reco_store", "commands">> >>

IsSuffix(p, q) ==
  /\ Len(p) <= Len(q)
  /\ \A i \in 1..Len(p) : q[Len(q) - Len(p) + i] = p[i]

LegacyMatches(pat, e) == IsSuffix(pat, e.qual) /\ Len(e.name) >= 1

RegisteredLegacy(text) ==
  UNION { {text[i].name : i \in {j \in 1..Len(text) :
                                    LegacyMatches(legacy_patterns[k], text[j])}}
          : k \in 1..Len(legacy_patterns) }

IsCurrentName_v2Only(cmd) == StartsWith(cmd, PrefV2)

\* cmd.startswith("v2_") or cmd.startswith("runtime_")
IsCurrentName(cmd) == StartsWith(cmd, PrefV2) \/ StartsWith(cmd, PrefRuntime)

GoesLegacy_noElse(cmd, rleg)  == cmd \in rleg
GoesUnknown_noElse(cmd, rleg) == cmd \notin rleg

\* The four branches of the classification if/else.
GoesV2Ok(cmd, rv2)      == IsCurrentName(cmd) /\ cmd \in rv2
GoesMissingV2(cmd, rv2) == IsCurrentName(cmd) /\ cmd \notin rv2
GoesLegacy(cmd, rleg)   == ~IsCurrentName(cmd) /\ cmd \in rleg
GoesUnknown(cmd, rleg)  == ~IsCurrentName(cmd) /\ cmd \notin rleg

EmptyBuckets ==
  [v2_ok |-> <<>>, missing_v2 |-> <<>>, legacy_calls |-> <<>>, unknown |-> <<>>]

\* One iteration of `for cmd, loc in invokes`.
ClassifyOne(b, cs, rv2, rleg) ==
  [v2_ok        |-> IF GoesV2Ok(cs[1], rv2)
                    THEN Append(b.v2_ok, cs) ELSE b.v2_ok,
   missing_v2   |-> IF GoesMissingV2(cs[1], rv2)
                    THEN Append(b.missing_v2, cs) ELSE b.missing_v2,
   legacy_calls |-> IF GoesLegacy(cs[1], rleg)
                    THEN Append(b.legacy_calls, cs) ELSE b.legacy_calls,
   unknown      |-> IF GoesUnknown(cs[1], rleg)
                    THEN Append(b.unknown, cs) ELSE b.unknown]

\* The whole classification loop.
RECURSIVE ClassifyFrom(_, _, _, _)
ClassifyFrom(b, invs, rv2, rleg) ==
  IF invs = <<>> THEN b
  ELSE ClassifyFrom(ClassifyOne(b, Head(invs), rv2, rleg), Tail(invs), rv2, rleg)

ClassifyAll(invs, rv2, rleg) == ClassifyFrom(EmptyBuckets, invs, rv2, rleg)

\* len({c for c, _ in rows})
UniqueNames(rows) == Cardinality({rows[i][1] : i \in 1..Len(rows)})

MakeSummary(invs, b) ==
  [total_callsites      |-> Len(invs),
   v2_ok_callsites      |-> Len(b.v2_ok),
   missing_v2_callsites |-> Len(b.missing_v2),
   legacy_callsites     |-> Len(b.legacy_calls),
   unknown_callsites    |-> Len(b.unknown),
   unique_total         |-> UniqueNames(invs),
   unique_v2_ok         |-> UniqueNames(b.v2_ok),
   unique_missing_v2    |-> UniqueNames(b.missing_v2),
   unique_legacy        |-> UniqueNames(b.legacy_calls),
   unique_unknown       |-> UniqueNames(b.unknown)]

\* The report files under tmp/.
SummaryFile == "frontend_invoke_summary.json"
TsvWrites_noUnknown ==
  << [file |-> "frontend_v2_ok_callsites.tsv",      rows |-> "v2_ok"],
     [file |-> "frontend_missing_v2_callsites.tsv", rows |-> "missing_v2"],
     [file |-> "frontend_legacy_callsites.tsv",     rows |-> "legacy_calls"] >>
TsvWrites ==
  << [file |-> "frontend_v2_ok_callsites.tsv",      rows |-> "v2_ok"],
     [file |-> "frontend_missing_v2_callsites.tsv", rows |-> "missing_v2"],
     [file |-> "frontend_legacy_callsites.tsv",     rows |-> "legacy_calls"],
     [file |-> "frontend_unknown_callsites.tsv",    rows |-> "unknown"] >>
ReportFiles ==
  { SummaryFile, "frontend_v2_ok_callsites.tsv",
    "frontend_missing_v2_callsites.tsv", "frontend_legacy_callsites.tsv",
    "frontend_unknown_callsites.tsv" }
NoFile == [exists |-> FALSE, content |-> <<>>]
Written(content) == [exists |-> TRUE, content |-> content]

\* json.dumps(summary): the keys in insertion order, each with its count.
SummaryKeys ==
  << "total_callsites", "v2_ok_callsites", "missing_v2_callsites",
     "legacy_callsites", "unknown_callsites", "unique_total", "unique_v2_ok",
     "unique_missing_v2", "unique_legacy", "unique_unknown" >>
DumpSummary(sm) == [k \in 1..Len(SummaryKeys) |-> <<SummaryKeys[k], sm[SummaryKeys[k]]>>]

\* write_tsv: one "cmd<TAB>loc" line per row.
TsvText(rows) == [k \in 1..Len(rows) |-> <<rows[k][1], "\t", rows[k][2]>>]

ExitCode_anyDrift(legacy)  == IF legacy # <<>> \/ missing_v2 # <<>> THEN 1 ELSE 0
ExitCode_moreThan1(legacy) == IF Len(legacy) > 1 THEN 1 ELSE 0
ExitCode_failEmpty(legacy) == IF legacy # <<>> \/ invokes = <<>> THEN 1 ELSE 0

\* if legacy_calls: return 1 / return 0
ExitCode(legacy) == IF legacy # <<>> THEN 1 ELSE 0

\* An uncaught exception ends the interpreter with status 1.
CrashCode == 1

\* ----------------------------------------------------------- initial state
\* main() has not run a statement yet.
Fresh ==
  /\ pc = "glob"
  /\ front_paths = <<>>
  /\ fi = 1
  /\ invokes = <<>>
  /\ registered_v2 = {}
  /\ registered_legacy = {}
  /\ ci = 1
  /\ v2_ok = <<>>
  /\ missing_v2 = <<>>
  /\ legacy_calls = <<>>
  /\ unknown = <<>>
  /\ summary = MakeSummary(<<>>, EmptyBuckets)
  /\ ti = 1
  /\ exit_code = 0

\* Checkouts with varied frontend sources and the sample lib.rs.
InitFront ==
  /\ tree \in {t \in [Paths -> FrontFiles] :
                 t[P_p] \in {Absent, File(<< <<>>, <<Lit(N_v2)>> >>)}}
  /\ dirs \in {d \in SUBSET Roots : DirsOk(tree, d)}
  /\ lib = SampleLib

\* Checkouts with a varied lib.rs and a frontend that invokes every name.
InitBack ==
  /\ tree = AllNamesTree
  /\ dirs = Roots
  /\ lib \in LibFiles

Init ==
  /\ InitFront \/ InitBack
  /\ reports = [f \in ReportFiles |-> NoFile]
  /\ written = {}
  /\ run = 1
  /\ prev_invokes = <<>>
  /\ Fresh

\* ----------------------------------------------------------------- actions
\* for g in front_globs: front_paths.extend(root.glob(g))
RECURSIVE GlobResults(_, _, _)
GlobResults(k, t, d) ==
  IF k > Len(front_globs) THEN {<<>>}
  ELSE {o \o rest : o \in Enumerations(GlobMatches(front_globs[k], t, d)),
                    rest \in GlobResults(k + 1, t, d)}

Glob ==
  /\ pc = "glob"
  /\ front_paths' \in GlobResults(1, tree, dirs)
  /\ pc' = "extract"
  /\ UNCHANGED <<env, reports, written, fi, invokes, registered_v2, registered_legacy,
                 ci, v2_ok, missing_v2, legacy_calls, unknown, summary, ti,
                 exit_code, run, prev_invokes>>

\* One iteration of `for path in front_paths`.
ExtractFile ==
  /\ pc = "extract"
  /\ fi <= Len(front_paths)
  /\ invokes' = invokes \o FileInvokes(front_paths[fi], tree[front_paths[fi]].text)
  /\ fi' = fi + 1
  /\ UNCHANGED <<env, reports, written, pc, front_paths, registered_v2,
                 registered_legacy, ci, v2_ok, missing_v2, legacy_calls,
                 unknown, summary, ti, exit_code, run, prev_invokes>>

ExtractDone ==
  /\ pc = "extract"
  /\ fi > Len(front_paths)
  /\ pc' = "load_lib"
  /\ UNCHANGED <<env, reports, written, locals, exit_code, run, prev_invokes>>

\* lib_rs = load_text(...) and the two registries.
LoadLib ==
  /\ pc = "load_lib"
  /\ ~LoadFails(lib)
  /\ registered_v2' = RegisteredV2(lib.text)
  /\ registered_legacy' = RegisteredLegacy(lib.text)
  /\ pc' = "classify"
  /\ UNCHANGED <<env, reports, written, front_paths, fi, invokes, ci, v2_ok,
                 missing_v2, legacy_calls, unknown, summary, ti, exit_code,
                 run, prev_invokes>>

\* load_text raises; nothing catches it.
LoadLibFail ==
  /\ pc = "load_lib"
  /\ LoadFails(lib)
  /\ pc' = "crashed"
  /\ exit_code' = CrashCode
  /\ UNCHANGED <<env, reports, written, locals, run, prev_invokes>>

\* One iteration of `for cmd, loc in invokes`.
Classify ==
  /\ pc = "classify"
  /\ ci <= Len(invokes)
  /\ LET b == ClassifyOne(Buckets, invokes[ci], registered_v2, registered_legacy)
     IN  /\ v2_ok' = b.v2_ok
         /\ missing_v2' = b.missing_v2
         /\ legacy_calls' = b.legacy_calls
         /\ unknown' = b.unknown
  /\ ci' = ci + 1
  /\ UNCHANGED <<env, reports, written, pc, front_paths, fi, invokes, registered_v2,
                 registered_legacy, summary, ti, exit_code, run, prev_invokes>>

ClassifyDone ==
  /\ pc = "classify"
  /\ ci > Len(invokes)
  /\ pc' = "write_summary"
  /\ UNCHANGED <<env, reports, written, locals, exit_code, run, prev_invokes>>

\* summary = {...}; mkdir tmp; write frontend_invoke_summary.json
WriteSummary ==
  /\ pc = "write_summary"
  /\ summary' = MakeSummary(invokes, Buckets)
  /\ reports' = [reports EXCEPT ![SummaryFile] = Written(DumpSummary(summary'))]
  /\ written' = written \cup {SummaryFile}
  /\ pc' = "write_tsv"
  /\ UNCHANGED <<env, front_paths, fi, invokes, registered_v2,
                 registered_legacy, ci, v2_ok, missing_v2, legacy_calls,
                 unknown, ti, exit_code, run, prev_invokes>>

\* One write_tsv(...) call.
WriteTsv ==
  /\ pc = "write_tsv"
  /\ ti <= Len(TsvWrites)
  /\ reports' = [reports EXCEPT ![TsvWrites[ti].file] =
                                   Written(TsvText(Buckets[TsvWrites[ti].rows]))]
  /\ written' = written \cup {TsvWrites[ti].file}
  /\ ti' = ti + 1
  /\ UNCHANGED <<env, pc, front_paths, fi, invokes, registered_v2,
                 registered_legacy, ci, v2_ok, missing_v2, legacy_calls,
                 unknown, summary, exit_code, run, prev_invokes>>

\* The prints and the return.
Return ==
  /\ pc = "write_tsv"
  /\ ti > Len(TsvWrites)
  /\ exit_code' = ExitCode(legacy_calls)
  /\ pc' = "returned"
  /\ UNCHANGED <<env, reports, written, locals, run, prev_invokes>>

\* The script is invoked again over the same frontend tree; lib.rs may have
\* been removed in between.  tmp/ keeps the earlier reports.
Rerun ==
  /\ pc \in {"returned", "crashed"}
  /\ run < MaxRuns
  /\ run' = run + 1
  /\ prev_invokes' = invokes
  /\ lib' \in {lib, Absent}
  /\ pc' = "glob"
  /\ front_paths' = <<>>
  /\ fi' = 1
  /\ invokes' = <<>>
  /\ registered_v2' = {}
  /\ registered_legacy' = {}
  /\ ci' = 1
  /\ v2_ok' = <<>>
  /\ missing_v2' = <<>>
  /\ legacy_calls' = <<>>
  /\ unknown' = <<>>
  /\ summary' = MakeSummary(<<>>, EmptyBuckets)
  /\ ti' = 1
  /\ exit_code' = 0
  /\ written' = {}
  /\ UNCHANGED <<tree, dirs, reports>>

Next ==
  \/ Glob
  \/ ExtractFile
  \/ ExtractDone
  \/ LoadLib
  \/ LoadLibFail
  \/ Classify
  \/ ClassifyDone
  \/ WriteSummary
  \/ WriteTsv
  \/ Return
  \/ Rerun

Spec == Init /\ [][Next]_vars

TypeOK ==
  /\ pc \in {"glob", "extract", "load_lib", "classify", "write_summary",
             "write_tsv", "returned", "crashed"}
  /\ exit_code \in {0, 1}
  /\ run \in 1..MaxRuns

\* -------------------------------------------------------------- properties
BucketNames == {"v2_ok", "missing_v2", "legacy_calls", "unknown"}

\* The classification loop has finished.
Classified == pc \in {"write_summary", "write_tsv", "returned"}

\* The registries have been built.
RegistryBuilt == pc \in {"classify", "write_summary", "write_tsv", "returned"}

\* The name begins with v2_ or runtime_.
HasPrefix(n, p) == \E k \in 0..Len(n) : SubSeq(n, 1, k) = p
Prefixed(n) == HasPrefix(n, <<"v", "2", "_">>)
               \/ HasPrefix(n, <<"r", "u", "n", "t", "i", "m", "e", "_">>)

\* The subsequence of s at the indices in K.
RECURSIVE PickFrom(_, _, _)
PickFrom(s, K, i) ==
  IF i > Len(s) THEN <<>>
  ELSE IF i \in K THEN <<s[i]>> \o PickFrom(s, K, i + 1)
       ELSE PickFrom(s, K, i + 1)
Pick(s, K) == PickFrom(s, K, 1)

InsertAt(s, k, x) == SubSeq(s, 1, k) \o <<x>> \o SubSeq(s, k + 1, Len(s))

\* The exit code of a run over the call sites invs with this run's registry.
ExitOf(invs) ==
  ExitCode(ClassifyAll(invs, registered_v2, registered_legacy).legacy_calls)

\* C1: during and after classification, every call site processed so far is
\* in exactly one of the four buckets, as often as it was extracted, so the
\* four bucket sizes add up to the number of call sites and the summary's
\* four per-bucket counts add up to total_callsites.
Thm_C1 ==
  LET n    == IF pc = "classify" THEN ci - 1 ELSE Len(invokes)
      done == SubSeq(invokes, 1, n)
  IN  (pc = "classify" \/ Classified) =>
        /\ Len(v2_ok) + Len(missing_v2) + Len(legacy_calls) + Len(unknown) = n
        /\ \A cs \in Range(invokes) \cup UNION {Range(Buckets[b]) : b \in BucketNames} :
             /\ Count(cs, v2_ok) + Count(cs, missing_v2)
                  + Count(cs, legacy_calls) + Count(cs, unknown) = Count(cs, done)
             /\ Cardinality({b \in BucketNames : cs \in Range(Buckets[b])}) <= 1
        /\ pc \in {"write_tsv", "returned"} =>
             summary.v2_ok_callsites + summary.missing_v2_callsites
               + summary.legacy_callsites + summary.unknown_callsites
             = summary.total_callsites

W_C1 ==
  /\ pc = "returned"
  /\ \A b \in BucketNames : Buckets[b] # <<>>

\* C2: a run that returns, returns 1 if the Legacy bucket is non-empty and 0
\* if it is empty, and a run over the same input without any choice of its
\* CurrentMissing and Unknown call sites returns the same code.
Thm_C2 ==
  pc = "returned" =>
    /\ exit_code = 1 <=> legacy_calls # <<>>
    /\ exit_code = 0 <=> legacy_calls = <<>>
    /\ LET info == {i \in 1..Len(invokes) :
                      invokes[i] \in Range(missing_v2) \cup Range(unknown)}
       IN  \A D \in SUBSET info :
             ExitOf(Pick(invokes, (1..Len(invokes)) \ D)) = exit_code

W_C2 ==
  /\ pc = "returned"
  /\ exit_code = 0
  /\ missing_v2 # <<>>
  /\ unknown # <<>>

\* C3: after classification a call site whose name begins with v2_ or
\* runtime_ is in v2_ok if the name is in registered_v2 and in missing_v2
\* otherwise, a call site whose name does not is in legacy_calls if the name
\* is in registered_legacy and in unknown otherwise, and it is in no other
\* bucket (so a prefixed name registered only as legacy is in missing_v2).
Thm_C3 ==
  Classified =>
    \A i \in 1..Len(invokes) :
      LET cmd == invokes[i][1]
          expected ==
            IF Prefixed(cmd)
            THEN IF cmd \in registered_v2 THEN "v2_ok" ELSE "missing_v2"
            ELSE IF cmd \in registered_legacy THEN "legacy_calls" ELSE "unknown"
      IN  \A b \in BucketNames :
            (invokes[i] \in Range(Buckets[b])) <=> (b = expected)

W_C3 ==
  /\ pc = "returned"
  /\ \E i \in 1..Len(missing_v2) :
       /\ missing_v2[i][1] \in registered_legacy
       /\ missing_v2[i][1] \notin registered_v2
  /\ v2_ok # <<>>
  /\ unknown # <<>>

\* C4: in an invocation that finds no lib.rs, no step creates or overwrites a
\* report file, main never gets past the load of lib.rs, and the abort
\* leaves a non-zero status.
Thm_C4 ==
  [][ ~lib'.exists =>
        /\ reports' = reports
        /\ written' = {}
        /\ pc' \in {"glob", "extract", "load_lib", "crashed"}
        /\ pc' = "crashed" => exit_code' # 0 ]_vars

W_C4 ==
  /\ pc = "crashed"
  /\ ~lib.exists
  /\ invokes # <<>>
  /\ \A f \in ReportFiles : reports[f].exists

\* C5: with a readable lib.rs and no frontend file (roots missing or globs
\* matching nothing) the run does not abort, extracts no call site, writes a
\* summary whose ten counts are all 0 and returns 0.
NoFrontendFile == \A p \in Paths : ~tree[p].exists

Thm_C5 ==
  (NoFrontendFile /\ lib.exists) =>
    /\ pc # "crashed"
    /\ pc # "glob" => front_paths = <<>>
    /\ invokes = <<>>
    /\ pc \in {"write_tsv", "returned"} =>
         /\ \A k \in 1..Len(SummaryKeys) : summary[SummaryKeys[k]] = 0
         /\ reports[SummaryFile].content = [k \in 1..Len(SummaryKeys) |-> <<SummaryKeys[k], 0>>]
    /\ pc = "returned" => exit_code = 0

W_C5 ==
  /\ pc = "returned"
  /\ NoFrontendFile
  /\ dirs = {}
  /\ lib.exists

\* C6: with the registry of the run fixed, adding at any position one call
\* site whose name is in registered_legacy and has no current prefix to the
\* input of a run that returned 0 gives a run that returns 1, and removing
\* the only call site of the Legacy bucket from the input of a run gives a
\* run that returns 0.
Thm_C6 ==
  pc = "returned" =>
    /\ exit_code = 0 =>
         \A n \in Names :
           (n \in registered_legacy /\ ~Prefixed(n)) =>
             \A k \in 0..Len(invokes) :
               ExitOf(InsertAt(invokes, k, <<n, <<P_a, 1>> >>)) = 1
    /\ Len(legacy_calls) = 1 =>
         /\ exit_code = 1
         /\ \A i \in 1..Len(invokes) :
              invokes[i] = legacy_calls[1] =>
                ExitOf(Pick(invokes, (1..Len(invokes)) \ {i})) = 0

W_C6 ==
  /\ pc = "returned"
  /\ exit_code = 0
  /\ invokes # <<>>
  /\ \E n \in registered_legacy : ~Prefixed(n)

\* C7 as stated: the two registries never share a name.
CX_C7 == RegistryBuilt => registered_v2 \cap registered_legacy = {}

\* C7 as amended: registered_v2 holds only names that begin with v2_ or
\* runtime_ and that lib.rs qualifies with commands_v2, so a name in both
\* registries always has such a prefix, and the registries are disjoint
\* whenever registered_legacy holds no name with such a prefix.
Thm_C7 ==
  RegistryBuilt =>
    /\ \A n \in registered_v2 :
         /\ Prefixed(n)
         /\ \E i \in 1..Len(lib.text) :
              lib.text[i] = [qual |-> <<"commands_v2">>, name |-> n]
    /\ \A n \in registered_v2 \cap registered_legacy : Prefixed(n)
    /\ (\A n \in registered_legacy : ~Prefixed(n)) =>
         registered_v2 \cap registered_legacy = {}

W_C7 ==
  /\ pc = "classify"
  /\ registered_v2 # {}
  /\ registered_legacy # {}
  /\ registered_v2 \cap registered_legacy = {}

Thm_C9 ==
  pc = "returned" =>
    /\ written = ReportFiles
    /\ \A f \in ReportFiles : reports[f].exists
    /\ reports[SummaryFile].content = DumpSummary(MakeSummary(invokes, Buckets))
    /\ reports["frontend_v2_ok_callsites.tsv"].content = TsvText(v2_ok)
    /\ reports["frontend_missing_v2_callsites.tsv"].content = TsvText(missing_v2)
    /\ reports["frontend_legacy_callsites.tsv"].content = TsvText(legacy_calls)
    /\ reports["frontend_unknown_callsites.tsv"].content = TsvText(unknown)

W_C9 ==
  /\ pc = "returned"
  /\ exit_code = 1
  /\ written = ReportFiles

\* C10: no name is in two buckets, and in the summary the four per-bucket
\* unique counts add up to unique_total.
NamesIn(rows) == {rows[i][1] : i \in 1..Len(rows)}

Thm_C10 ==
  /\ (pc = "classify" \/ Classified) =>
       \A b1, b2 \in BucketNames :
         b1 # b2 => NamesIn(Buckets[b1]) \cap NamesIn(Buckets[b2]) = {}
  /\ pc \in {"write_tsv", "returned"} =>
       summary.unique_v2_ok + summary.unique_missing_v2
         + summary.unique_legacy + summary.unique_unknown
       = summary.unique_total

W_C10 ==
  /\ pc = "returned"
  /\ summary.unique_total < summary.total_callsites
  /\ Cardinality({b \in BucketNames : Buckets[b] # <<>>}) >= 2

====
